---- MODULE Spec2Model ----
(***************************************************************************)
(* Payment gateway orchestration (saleor/payment/gateway.py).              *)
(*                                                                         *)
(* The durable store holds one row per Payment and an append-only list of  *)
(* Transaction rows per Payment.  Callers hold a copy of a Payment they    *)
(* read earlier and call one of the orchestrators process_payment,         *)
(* authorize, capture, refund, void, confirm with it.  An orchestrator is  *)
(* its body wrapped in the decorators of the source, outermost first:      *)
(*   raise_payment_error, require_active_payment, with_locked_payment,     *)
(*   payment_postprocess        (capture: payment_postprocess once more,   *)
(*                               outside raise_payment_error).             *)
(* payment_refund_or_void calls refund or void on the payment it is given. *)
(* The helpers imported from .utils and the methods of the Payment model   *)
(* are not part of gateway.py; they are modelled from the specification.   *)
(*                                                                         *)
(* Specifications:                                                         *)
(*   Spec        the six orchestrators, two callers, one payment;          *)
(*   SpecCancel  refund, void and payment_refund_or_void on a payment that *)
(*               may or may not support void;                              *)
(*   SpecTwo     capture and void on two payments;                         *)
(*   FairSpec    authorize and void on one payment, scheduled fairly.      *)
(***************************************************************************)
EXTENDS Integers, Sequences, FiniteSets, TLC

Callers == {"c1", "c2"}
Tokens == {"t1", "t2"}

\* payment.total of every payment of the model
MaxTotal == 2
\* number of orchestrator calls made in one behaviour
MaxCalls == 2

NoOne == "none"
NoToken == ""
NoError == ""
\* amount=None of capture and refund
NoAmount == 0 - 1
Amounts == 0..(MaxTotal + 1)

ERROR_MSG == "Oops! Something went wrong."
GENERIC_TRANSACTION_ERROR == "Transaction was unsuccessful."
INACTIVE_ERROR == "This payment is no longer active."
CANNOT_REFUND_ERROR == "This payment cannot be refunded."
NOT_POSITIVE_ERROR == "Amount should be a positive number."
REFUND_TOO_MUCH_ERROR == "Cannot refund more than captured."
CAPTURE_TOO_MUCH_ERROR == "Unable to charge more than un-captured amount."
ALREADY_AUTHORIZED_ERROR == "Charged transactions cannot be authorized again."

CannotFindError(kind) == "Cannot find successful " \o kind \o " transaction."

\* TransactionKind
AUTH == "auth"
CAPTURE == "capture"
VOID == "void"
REFUND == "refund"
CONFIRM == "confirm"
EXTERNAL == "external"
ACTION_TO_CONFIRM == "action_to_confirm"

Ops == {"process_payment", "authorize", "capture", "refund", "void", "confirm"}

VARIABLES
    payments,      \* durable Payment rows: id -> record
    transactions,  \* durable Transaction rows of each payment, in creation order
    lock,          \* holder of the row lock of each payment (select_for_update)
    call,          \* the orchestrator call each caller is in
    outcome,       \* what the call that ended last gave its caller
    calls,         \* number of calls started so far
    refund_epoch   \* per payment: number of successful refunds post-processed

vars == <<payments, transactions, lock, call, outcome, calls, refund_epoch>>

NoPayload == [token |-> NoToken, amount |-> 0]
NoResponse ==
    [is_none |-> TRUE, is_success |-> FALSE, transaction_id |-> NoToken,
     action_required |-> FALSE, error |-> NoError]
NoObject ==
    [gateway |-> "none", is_active |-> FALSE, captured_amount |-> 0,
     refundable |-> FALSE, voidable |-> FALSE]

\* The payment object of a caller: the fields it reads outside the lock.
\* NoPayment is payment = None.
NoPayment ==
    [id |-> "none", is_active |-> FALSE, refundable |-> FALSE, voidable |-> FALSE]
SomePayment ==
    [id |-> "p1", is_active |-> TRUE, refundable |-> FALSE, voidable |-> FALSE]

IdleCall ==
    [pc |-> "idle", payment |-> SomePayment, op |-> "none", via |-> "direct",
     obj |-> NoObject,
     payload |-> NoPayload, txn |-> 0,
     inserted |-> 0, hooks |-> 0, gateway_calls |-> 0, locks |-> 0, epoch |-> 0,
     amount |-> NoAmount, captured |-> 0, plugin |-> "none"]

NoOutcome ==
    [payment |-> SomePayment, op |-> "none", via |-> "direct",
     result |-> "none", error |-> NoError, txn |-> 0, inserted |-> 0, hooks |-> 0,
     gateway_calls |-> 0, locks |-> 0, amount |-> NoAmount, captured |-> 0,
     plugin |-> "none"]

\* Payment.is_manual(): the gateway of the payment is the manual one.
MANUAL == "manual"
is_manual(pay) == pay.gateway = MANUAL

\* Payment.can_refund() on the payment object pay.
can_refund(pay) == pay.refundable

\* Payment.can_void() on the payment object pay.
can_void(pay) == pay.voidable

\* Payment.get_charge_amount(): the amount that remains to be charged.
get_charge_amount(pay) == MaxTotal - pay.captured_amount


(***************************************************************************)
(* Helpers of .utils and the storage queries                               *)
(***************************************************************************)

\* payment.transactions.filter(kind=kind, is_success=True): the positions of
\* the rows that match.
SuccessfulOfKind(txns, kind) ==
    {i \in 1..Len(txns) : txns[i].kind = kind /\ txns[i].is_success}

\* .last() of a filtered query: the newest matching row, 0 for None.
Last(ids) == IF ids = {} THEN 0 ELSE CHOOSE i \in ids : \A j \in ids : j <= i

\* create_payment_information: the payload sent to the gateway; amount
\* defaults to payment.total.
create_payment_information(token, amount) ==
    [token |-> token, amount |-> IF amount = NoAmount THEN MaxTotal ELSE amount]

\* create_transaction: the row of one attempt.  Without a gateway response
\* the row takes the payload's token and the given outcome.
create_transaction(kind, payload, action_required, response, error_msg, is_success) ==
    IF response.is_none
    THEN [kind |-> kind, token |-> payload.token, is_success |-> is_success,
          amount |-> payload.amount, action_required |-> action_required,
          error |-> error_msg]
    ELSE [kind |-> kind,
          token |-> IF response.transaction_id = NoToken
                    THEN payload.token ELSE response.transaction_id,
          is_success |-> error_msg = NoError /\ response.is_success,
          amount |-> payload.amount, action_required |-> action_required,
          error |-> response.error]

\* get_already_processed_transaction_or_create_new_transaction: the row of
\* the same kind and correlating token that is marked successful is reused;
\* otherwise a row is appended.  Result: the ledger and the id of the row.
get_already_processed_transaction_or_create_new_transaction(txns, kind, payload, action_required, response, error_msg) ==
    LET same == {i \in SuccessfulOfKind(txns, kind) :
                    txns[i].token = response.transaction_id}
    IN  IF ~response.is_none /\ same # {}
        THEN [txns |-> txns, id |-> Last(same)]
        ELSE [txns |-> Append(txns, create_transaction(
                          kind, payload, action_required, response, error_msg, FALSE)),
              id |-> Len(txns) + 1]

\* gateway_postprocess(txn, payment): the payment object after the hook.
gateway_postprocess(txn, pay) ==
    IF ~txn.is_success \/ txn.action_required THEN pay
    ELSE IF txn.kind \in {CAPTURE, CONFIRM}
         THEN [pay EXCEPT !.captured_amount = @ + txn.amount]
    ELSE IF txn.kind = REFUND
         THEN [pay EXCEPT !.captured_amount = @ - txn.amount]
    ELSE IF txn.kind = VOID
         THEN [pay EXCEPT !.is_active = FALSE]
    ELSE pay

\* The save at the end of gateway_postprocess writes the fields the hook
\* changed to the durable row.
SavePostprocess(row, txn, pay) ==
    IF ~txn.is_success \/ txn.action_required THEN row
    ELSE IF txn.kind \in {CAPTURE, CONFIRM, REFUND}
         THEN [row EXCEPT !.captured_amount = pay.captured_amount]
    ELSE IF txn.kind = VOID
         THEN [row EXCEPT !.is_active = pay.is_active]
    ELSE row

\* clean_authorize: "" when the payment may be authorized, else the error.
clean_authorize(txns) ==
    IF SuccessfulOfKind(txns, AUTH) # {} THEN ALREADY_AUTHORIZED_ERROR ELSE NoError

\* clean_capture: "" when the amount may be captured, else the error.
clean_capture(pay, amount) ==
    IF amount <= 0 THEN NOT_POSITIVE_ERROR
    ELSE IF amount > MaxTotal - pay.captured_amount THEN CAPTURE_TOO_MUCH_ERROR
    ELSE NoError

(***************************************************************************)
(* gateway.py                                                              *)
(***************************************************************************)

\* Faulty variant: a missing prior Transaction yields an empty token instead
\* of the PaymentError.
get_past_transaction_token_lenient(txns, kind) ==
    LET txn == Last(SuccessfulOfKind(txns, kind))
    IN  [found |-> TRUE, token |-> IF txn = 0 THEN NoToken ELSE txns[txn].token]

\* Faulty variant: the query misses is_success=True and takes the newest row
\* of the kind, successful or not.
get_past_transaction_token_any_row(txns, kind) ==
    LET txn == Last({i \in 1..Len(txns) : txns[i].kind = kind})
    IN  IF txn = 0
        THEN [found |-> FALSE, token |-> NoToken]
        ELSE [found |-> TRUE, token |-> txns[txn].token]

\* _get_past_transaction_token: found = FALSE stands for the PaymentError.
_get_past_transaction_token(txns, kind) ==
    LET txn == Last(SuccessfulOfKind(txns, kind))
    IN  IF txn = 0
        THEN [found |-> FALSE, token |-> NoToken]
        ELSE [found |-> TRUE, token |-> txns[txn].token]

\* Faulty variant: the ceiling is off by one, captured_amount + 1 passes.
validate_refund_amount_off_by_one(pay, amount) ==
    IF amount <= 0 THEN NOT_POSITIVE_ERROR
    ELSE IF amount > pay.captured_amount + 1 THEN REFUND_TOO_MUCH_ERROR
    ELSE NoError

\* _validate_refund_amount: "" when the amount passes, else the error.
_validate_refund_amount(pay, amount) ==
    IF amount <= 0 THEN NOT_POSITIVE_ERROR
    ELSE IF amount > pay.captured_amount THEN REFUND_TOO_MUCH_ERROR
    ELSE NoError

\* What the gateway plugin can do with one call: return a valid response,
\* return a response that fails validation, or raise.
GatewayOutcomes(op) ==
    [how : {"valid"}, is_success : {TRUE}, transaction_id : Tokens,
     action_required : IF op \in {"process_payment", "confirm"}
                       THEN BOOLEAN ELSE {FALSE},
     error : {NoError}]
    \cup
    [how : {"valid"}, is_success : {FALSE}, transaction_id : {NoToken},
     action_required : {FALSE}, error : {NoError, "Declined."}]
    \cup
    [how : {"malformed", "GatewayError", "PaymentError"}, is_success : {TRUE},
     transaction_id : {"t1"}, action_required : {FALSE}, error : {NoError}]

\* What the caller's record keeps of the plugin call: it returned a valid
\* response, successful or not, or it failed (raised, or returned a response
\* that fails validation).
PluginDid(plugin) ==
    IF plugin.how # "valid" THEN "failed"
    ELSE IF plugin.is_success THEN "succeeded" ELSE "declined"

\* Faulty variant: the handler of a response that fails validation sets the
\* error and forgets response = None.
fetch_gateway_response_keeps_response(plugin) ==
    IF plugin.how \in {"valid", "malformed"}
    THEN [response |-> [is_none |-> FALSE, is_success |-> plugin.is_success,
                        transaction_id |-> plugin.transaction_id,
                        action_required |-> plugin.action_required,
                        error |-> plugin.error],
          error |-> IF plugin.how = "valid" THEN NoError ELSE ERROR_MSG]
    ELSE [response |-> NoResponse, error |-> ERROR_MSG]

\* _fetch_gateway_response: the (response, error) pair.
_fetch_gateway_response(plugin) ==
    IF plugin.how = "valid"
    THEN [response |-> [is_none |-> FALSE, is_success |-> plugin.is_success,
                        transaction_id |-> plugin.transaction_id,
                        action_required |-> plugin.action_required,
                        error |-> plugin.error],
          error |-> NoError]
    ELSE [response |-> NoResponse, error |-> ERROR_MSG]

\* The kind each orchestrator writes.
KindWritten(op) ==
    CASE op = "process_payment" -> CAPTURE
      [] op = "authorize" -> AUTH
      [] op = "capture" -> CAPTURE
      [] op = "refund" -> REFUND
      [] op = "void" -> VOID
      [] op = "confirm" -> CONFIRM

\* action_required as the orchestrator passes it to the commit: process_payment
\* and confirm copy it from the response, the others leave the default.
ActionRequired(op, response) ==
    op \in {"process_payment", "confirm"} /\ ~response.is_none
        /\ response.action_required

\* Faulty variant: every orchestrator inserts its row with create_transaction.
WritePath_create_always(op, payment) == "create_transaction"

\* The commit each orchestrator ends with: create_transaction for the refund
\* of a manual payment, the idempotent commit everywhere else.
WritePath(op, payment) ==
    IF op = "refund" /\ is_manual(payment) THEN "create_transaction"
    ELSE "get_already_processed_transaction_or_create_new_transaction"

\* Faulty variant: the refund of a manual payment goes to the gateway like
\* any other.
MarksRefundedWithoutGateway_never(payment) == FALSE

\* refund: "for manual payment we just need to mark payment as a refunded",
\* the branch that returns before the gateway call.
MarksRefundedWithoutGateway(payment) == is_manual(payment)

\* Whether payment_postprocess wraps the orchestrator a second time, outside
\* raise_payment_error (the decorator stack of capture).
OuterPostprocess(op) == op = "capture"


(***************************************************************************)
(* Initial state.  The store holds the payments ids; each is a manual      *)
(* payment, created charged in full with its EXTERNAL row, or a gateway    *)
(* payment nothing was charged on yet, new or authorized by an earlier     *)
(* authorize.                                                              *)
(***************************************************************************)
InitialRow(kind) ==
    [kind |-> kind, token |-> "t1", is_success |-> TRUE, amount |-> MaxTotal,
     action_required |-> FALSE, error |-> NoError]

InitialTransactions(pay) ==
    IF is_manual(pay) THEN {<< InitialRow(EXTERNAL) >>}
    ELSE {<< >>, << InitialRow(AUTH) >>}

InitialPayments ==
    [gateway : {MANUAL}, is_active : {TRUE}, captured_amount : {MaxTotal},
     refundable : BOOLEAN, voidable : BOOLEAN]
    \cup
    [gateway : {"dummy"}, is_active : {TRUE}, captured_amount : {0},
     refundable : BOOLEAN, voidable : BOOLEAN]

InitOf(ids) ==
    /\ payments \in [ids -> InitialPayments]
    /\ transactions \in [ids -> {<< >>, << InitialRow(AUTH) >>, << InitialRow(EXTERNAL) >>}]
    /\ \A p \in ids : transactions[p] \in InitialTransactions(payments[p])
    /\ lock = [p \in ids |-> NoOne]
    /\ call = [c \in Callers |-> IdleCall]
    /\ outcome = NoOutcome
    /\ calls = 0
    /\ refund_epoch = [p \in ids |-> 0]

\* One payment, which the callers compete for.  The six orchestrators never
\* read can_void, so the payment is taken to support void; the cancellation
\* flow below starts from either.
Init ==
    /\ InitOf({"p1"})
    /\ \A p \in DOMAIN payments : can_void(payments[p])

(***************************************************************************)
(* The decorators                                                          *)
(***************************************************************************)

\* Faulty variant: the activity check lets every payment through.
require_active_payment_skipped(payment) == TRUE

\* require_active_payment: the check made on the payment object passed in.
require_active_payment(payment) == payment.is_active

\* Faulty variant: a plain read, which never waits for the row lock.
select_without_lock(p) == TRUE

\* Faulty variant: the lock is taken on the table, not on the row.
select_for_update_locks_table(p) == \A q \in DOMAIN lock : lock[q] = NoOne

\* select_for_update: the row can be locked when no transaction holds it.
select_for_update(p) == lock[p] = NoOne

\* Faulty variant: the lock outlives the block.
atomic_exit_keeps_lock(p) == lock

\* Leaving the transaction.atomic() block, by return or by exception, ends
\* the database transaction and with it the row lock.
atomic_exit(p) == [lock EXCEPT ![p] = NoOne]

\* Faulty variant: an unsuccessful Transaction is returned like any other.
raise_payment_error_never(txn) == NoError

\* raise_payment_error on the Transaction the wrapped function returned:
\* the message raised, "" when the Transaction is returned.
raise_payment_error(txn) ==
    IF ~txn.is_success
    THEN IF txn.error # NoError THEN txn.error ELSE GENERIC_TRANSACTION_ERROR
    ELSE NoError

\* Faulty variant: with_locked_payment applied outside raise_payment_error, so
\* that the PaymentError leaves the atomic block and rolls it back.
RaisedInsideAtomic_swapped == TRUE

\* Whether the PaymentError of raise_payment_error is raised inside the
\* atomic block: raise_payment_error is the outer decorator, the block has
\* committed when it raises.
RaisedInsideAtomic == FALSE

\* The call of caller c, in state cl, is over: the caller gets the Transaction
\* returned (error = "") or the error raised, and the objects of the call
\* are gone.
FinishAs(c, cl, result, error) ==
    /\ call' = [call EXCEPT ![c] = IdleCall]
    /\ outcome' = [payment |-> cl.payment, op |-> cl.op, via |-> cl.via,
                   result |-> result,
                   error |-> error, txn |-> cl.txn, inserted |-> cl.inserted,
                   hooks |-> cl.hooks, gateway_calls |-> cl.gateway_calls,
                   locks |-> cl.locks, amount |-> cl.amount,
                   captured |-> cl.captured, plugin |-> cl.plugin]

Finish(c, cl, error) ==
    FinishAs(c, cl, IF error = NoError THEN "returned" ELSE "raised", error)

\* Callers are interchangeable: c1 names the one that makes the first call.
FirstCaller(c) == c = "c1" \/ calls > 0

\* A caller reads a payment from the store; this copy is what it later
\* passes to an orchestrator.
Load(c, p) ==
    /\ call[c].pc = "idle"
    /\ calls < MaxCalls
    /\ FirstCaller(c)
    /\ calls' = calls + 1
    /\ call' = [call EXCEPT ![c] =
                  [IdleCall EXCEPT !.pc = "loaded",
                                   !.payment = [id |-> p,
                                                is_active |-> payments[p].is_active,
                                                refundable |-> payments[p].refundable,
                                                voidable |-> payments[p].voidable]]]
    /\ UNCHANGED <<payments, transactions, lock, outcome, refund_epoch>>

\* The caller calls orchestrator op: raise_payment_error.wrapped enters
\* require_active_payment.wrapped, which raises or goes on to the lock.  The
\* arguments other than the payment are first read by the body, where the
\* model chooses them.
CallFrom(c, cl, op) ==
    /\ IF require_active_payment(cl.payment)
       THEN /\ call' = [call EXCEPT ![c] = [cl EXCEPT !.pc = "lock", !.op = op]]
            /\ UNCHANGED outcome
       ELSE Finish(c, [cl EXCEPT !.op = op], INACTIVE_ERROR)
    /\ UNCHANGED <<payments, transactions, lock, calls, refund_epoch>>

Call(c, op) ==
    /\ call[c].pc = "loaded"
    /\ CallFrom(c, call[c], op)

\* with_locked_payment.wrapped: open the transaction, lock and reload the row.
with_locked_payment(c) ==
    LET p == call[c].payment.id
    IN  /\ call[c].pc = "lock"
        /\ select_for_update(p)
        /\ lock' = [lock EXCEPT ![p] = c]
        /\ call' = [call EXCEPT ![c].pc = "body", ![c].obj = payments[p],
                                ![c].locks = @ + 1, ![c].epoch = refund_epoch[p]]
        /\ UNCHANGED <<payments, transactions, outcome, calls, refund_epoch>>

(***************************************************************************)
(* The orchestrators, up to the gateway call                               *)
(***************************************************************************)

\* A PaymentError raised in the body leaves every decorator: the atomic
\* block rolls back (nothing was written) and the lock is released.
RaiseFrom(c, cl, msg) ==
    /\ Finish(c, cl, msg)
    /\ lock' = atomic_exit(cl.payment.id)
    /\ UNCHANGED <<payments, transactions, calls, refund_epoch>>

Raise(c, msg) == RaiseFrom(c, call[c], msg)

\* The orchestrator calls the gateway plugin with the payload.
DispatchFrom(c, cl, payload) ==
    /\ call' = [call EXCEPT ![c] = [cl EXCEPT !.pc = "gateway",
                                              !.payload = payload,
                                              !.gateway_calls = @ + 1]]
    /\ UNCHANGED <<payments, transactions, lock, outcome, calls, refund_epoch>>

Dispatch(c, payload) == DispatchFrom(c, call[c], payload)

InBody(c, op) == call[c].pc = "body" /\ call[c].op = op

process_payment(c, token) ==
    /\ InBody(c, "process_payment")
    /\ Dispatch(c, create_payment_information(token, NoAmount))

authorize(c, token) ==
    LET error == clean_authorize(transactions[call[c].payment.id])
    IN  /\ InBody(c, "authorize")
        /\ IF error # NoError
           THEN Raise(c, error)
           ELSE Dispatch(c, create_payment_information(token, NoAmount))

capture(c, amount_arg) ==
    LET payment == call[c].obj
        amount == IF amount_arg = NoAmount
                  THEN get_charge_amount(payment) ELSE amount_arg
        error == clean_capture(payment, amount)
        past == _get_past_transaction_token(transactions[call[c].payment.id], AUTH)
    IN  /\ InBody(c, "capture")
        /\ IF error # NoError THEN Raise(c, error)
           ELSE IF ~past.found THEN Raise(c, CannotFindError(AUTH))
           ELSE Dispatch(c, create_payment_information(past.token, amount))

void(c) ==
    LET past == _get_past_transaction_token(transactions[call[c].payment.id], AUTH)
    IN  /\ InBody(c, "void")
        /\ IF ~past.found THEN Raise(c, CannotFindError(AUTH))
           ELSE Dispatch(c, create_payment_information(past.token, NoAmount))

confirm(c) ==
    LET txns == transactions[call[c].payment.id]
        txn == Last(SuccessfulOfKind(txns, ACTION_TO_CONFIRM))
        token == IF txn # 0 THEN txns[txn].token ELSE NoToken
    IN  /\ InBody(c, "confirm")
        /\ Dispatch(c, create_payment_information(token, NoAmount))


(***************************************************************************)
(* Commit, post-processing and the way out                                 *)
(***************************************************************************)

\* The commit of orchestrator op on the ledger txns: the ledger after it and
\* the id of the Transaction the orchestrator returns.
Commit(op, payment, txns, payload, response, error_msg) ==
    IF WritePath(op, payment) = "create_transaction"
    THEN [txns |-> Append(txns, create_transaction(
                      KindWritten(op), payload, ActionRequired(op, response),
                      response, error_msg, error_msg = NoError)),
          id |-> Len(txns) + 1]
    ELSE get_already_processed_transaction_or_create_new_transaction(
             txns, KindWritten(op), payload, ActionRequired(op, response),
             response, error_msg)

\* The body returns its Transaction: payment_postprocess (the inner one) runs
\* the hook on it, with_locked_payment leaves the atomic block, which commits
\* the rows written and releases the lock, and raise_payment_error raises on
\* an unsuccessful Transaction.  A successful one is returned, for capture
\* through the outer payment_postprocess.
CommittedFrom(c, cl, payload, response, error_msg) ==
    LET p == cl.payment.id
        op == cl.op
        com == Commit(op, cl.obj, transactions[p], payload, response, error_msg)
        txn == com.txns[com.id]
        obj == gateway_postprocess(txn, cl.obj)
        error == raise_payment_error(txn)
        after == [cl EXCEPT !.pc = "outer", !.payload = NoPayload,
                                 !.txn = com.id, !.obj = obj,
                                 !.inserted = Len(com.txns) - Len(transactions[p]),
                                 !.hooks = @ + 1]
        rolled_back == RaisedInsideAtomic /\ error # NoError
    IN  /\ transactions' = IF rolled_back THEN transactions
                           ELSE [transactions EXCEPT ![p] = com.txns]
        /\ payments' = IF rolled_back THEN payments
                       ELSE [payments EXCEPT ![p] = SavePostprocess(@, txn, obj)]
        /\ lock' = atomic_exit(p)
        /\ refund_epoch' =
              [refund_epoch EXCEPT ![p] =
                  IF txn.kind = REFUND /\ txn.is_success THEN @ + 1 ELSE @]
        /\ IF error = NoError /\ OuterPostprocess(op)
           THEN call' = [call EXCEPT ![c] = after] /\ UNCHANGED outcome
           ELSE Finish(c, after, error)
        /\ UNCHANGED calls

Committed(c, payload, response, error_msg) ==
    CommittedFrom(c, call[c], payload, response, error_msg)

\* refund keeps, for the caller's record, the amount it works with and the
\* captured_amount it validated it against.
refund(c, amount_arg) ==
    LET p == call[c].payment.id
        payment == call[c].obj
        amount == IF amount_arg = NoAmount
                  THEN payment.captured_amount ELSE amount_arg
        error == _validate_refund_amount(payment, amount)
        kind == IF is_manual(payment) THEN EXTERNAL ELSE CAPTURE
        past == _get_past_transaction_token(transactions[p], kind)
        payload == create_payment_information(past.token, amount)
        cl == [call[c] EXCEPT !.amount = amount,
                              !.captured = payment.captured_amount]
    IN  /\ InBody(c, "refund")
        /\ call[c].via = "payment_refund_or_void" => amount_arg = NoAmount
        /\ IF error # NoError THEN RaiseFrom(c, cl, error)
           ELSE IF ~can_refund(payment) THEN RaiseFrom(c, cl, CANNOT_REFUND_ERROR)
           ELSE IF ~past.found THEN RaiseFrom(c, cl, CannotFindError(kind))
           ELSE IF MarksRefundedWithoutGateway(payment)
                THEN CommittedFrom(c, cl, payload, NoResponse, NoError)
           ELSE DispatchFrom(c, cl, payload)


\* The gateway call comes back: _fetch_gateway_response turns what the plugin
\* did into the (response, error) pair and the orchestrator commits it.
gateway_returns(c) ==
    /\ call[c].pc = "gateway"
    /\ \E plugin \in GatewayOutcomes(call[c].op) :
          LET fetched == _fetch_gateway_response(plugin)
              cl == [call[c] EXCEPT !.plugin = PluginDid(plugin)]
          IN  CommittedFrom(c, cl, call[c].payload, fetched.response, fetched.error)

\* The outer payment_postprocess of capture: outside the lock, the hook runs
\* once more on the Transaction returned and on its payment object.
payment_postprocess(c) ==
    LET p == call[c].payment.id
        txn == transactions[p][call[c].txn]
        obj == gateway_postprocess(txn, call[c].obj)
    IN  /\ call[c].pc = "outer"
        /\ Finish(c, [call[c] EXCEPT !.hooks = @ + 1], NoError)
        /\ payments' = [payments EXCEPT ![p] = SavePostprocess(@, txn, obj)]
        /\ UNCHANGED <<transactions, lock, calls, refund_epoch>>

(***************************************************************************)
(* payment_refund_or_void                                                  *)
(***************************************************************************)

\* Faulty variant: else instead of elif payment.can_void().
RefundOrVoid_else_void(payment) ==
    IF can_refund(payment) THEN "refund" ELSE "void"

\* The branch payment_refund_or_void takes on the payment object it is given.
RefundOrVoid(payment) ==
    IF can_refund(payment) THEN "refund"
    ELSE IF can_void(payment) THEN "void"
    ELSE "none"

\* payment_refund_or_void(payment): with None (absent) it returns at once; with
\* the payment object the caller loaded it calls refund(payment) or
\* void(payment), whose PaymentError it lets through, or returns.
payment_refund_or_void(c, absent) ==
    IF absent
    THEN /\ call[c].pc = "idle"
         /\ calls < MaxCalls
         /\ FirstCaller(c)
         /\ calls' = calls + 1
         /\ FinishAs(c, [IdleCall EXCEPT !.payment = NoPayment,
                                         !.via = "payment_refund_or_void"],
                     "nothing", NoError)
         /\ UNCHANGED <<payments, transactions, lock, refund_epoch>>
    ELSE LET cl == [call[c] EXCEPT !.via = "payment_refund_or_void"]
             op == RefundOrVoid(cl.payment)
         IN  /\ call[c].pc = "loaded"
             /\ IF op = "none"
                THEN /\ FinishAs(c, cl, "nothing", NoError)
                     /\ UNCHANGED <<payments, transactions, lock, calls,
                                    refund_epoch>>
                ELSE CallFrom(c, cl, op)

Next ==
    \E c \in Callers :
        \/ \E p \in DOMAIN payments : Load(c, p)
        \/ \E op \in Ops : Call(c, op)
        \/ with_locked_payment(c)
        \/ \E token \in Tokens : process_payment(c, token)
        \/ \E token \in Tokens : authorize(c, token)
        \/ \E amount \in Amounts \cup {NoAmount} : capture(c, amount)
        \/ \E amount \in Amounts \cup {NoAmount} : refund(c, amount)
        \/ void(c)
        \/ confirm(c)
        \/ gateway_returns(c)
        \/ payment_postprocess(c)

Spec == Init /\ [][Next]_vars

\* Callers that authorize and void one payment of a gateway, new or
\* authorized, under a scheduler that lets every thread that can run run and
\* a gateway that answers every call.  Step(c) is what runs once caller c has
\* entered its orchestrator, from the wait for the lock to the return (every
\* such step changes call[c]); callers need not start the calls they could
\* start.
FairOps == {"authorize", "void"}

InitFair ==
    /\ Init
    /\ \A p \in DOMAIN payments :
          ~is_manual(payments[p]) /\ can_refund(payments[p])

Step(c) ==
    \/ with_locked_payment(c)
    \/ \E token \in Tokens : authorize(c, token)
    \/ void(c)
    \/ gateway_returns(c)

NextFair ==
    \E c \in Callers :
        \/ \E p \in DOMAIN payments : Load(c, p)
        \/ \E op \in FairOps : Call(c, op)
        \/ Step(c)

FairSpec ==
    InitFair /\ [][NextFair]_vars /\ \A c \in Callers : WF_<<call[c]>>(Step(c))

\* The cancellation flow: callers that cancel, through payment_refund_or_void
\* or by calling refund or void themselves, a payment that may or may not
\* support void.
CancelOps == {"refund", "void"}

InitCancel == InitOf({"p1"})

NextCancel ==
    \E c \in Callers :
        \/ \E p \in DOMAIN payments : Load(c, p)
        \/ \E absent \in BOOLEAN : payment_refund_or_void(c, absent)
        \/ \E op \in CancelOps : Call(c, op)
        \/ with_locked_payment(c)
        \/ \E amount \in Amounts \cup {NoAmount} : refund(c, amount)
        \/ void(c)
        \/ gateway_returns(c)

SpecCancel == InitCancel /\ [][NextCancel]_vars

\* Two payments: callers that capture on and void authorized payments of a
\* gateway, each call on either payment.
TwoOps == {"capture", "void"}

InitTwo ==
    /\ InitOf({"p1", "p2"})
    /\ \A p \in DOMAIN payments :
          /\ ~is_manual(payments[p])
          /\ can_refund(payments[p])
          /\ can_void(payments[p])
          /\ transactions[p] # << >>

NextTwo ==
    \E c \in Callers :
        \/ \E p \in DOMAIN payments : Load(c, p)
        \/ \E op \in TwoOps : Call(c, op)
        \/ with_locked_payment(c)
        \/ \E amount \in Amounts \cup {NoAmount} : capture(c, amount)
        \/ void(c)
        \/ gateway_returns(c)
        \/ payment_postprocess(c)

SpecTwo == InitTwo /\ [][NextTwo]_vars


(***************************************************************************)
(* Properties                                                              *)
(***************************************************************************)

InLockedSection(c) == call[c].pc \in {"body", "gateway"}

Ended == outcome.result # "none"

\* The ledger of the payment of the call that ended last, and the row that
\* call committed or reused (defined when txn # 0).
OutcomeLedger == transactions[outcome.payment.id]
OutcomeRow == OutcomeLedger[outcome.txn]

\* C1: the ledger of a payment holds at most one successful Transaction per
\* (kind, token), whatever calls were made, refunds of manual payments
\* included.
C1_OneSuccessfulRowPerKindAndToken ==
    \A p \in DOMAIN transactions :
        \A i, j \in 1..Len(transactions[p]) :
            ( /\ i # j
              /\ transactions[p][i].is_success
              /\ transactions[p][j].is_success
              /\ transactions[p][i].kind = transactions[p][j].kind )
            => transactions[p][i].token # transactions[p][j].token

\* C2: when the gateway call of a capture resolves, successfully, to the token
\* of a successful CAPTURE row the ledger already holds, the step inserts no
\* row and the call returns that row; so the ledger keeps one successful
\* CAPTURE row for the token.
C2_SecondCaptureReturnsFirst ==
    [][ \A c \in Callers :
          ( /\ call[c].pc = "gateway"
            /\ call[c].op = "capture"
            /\ call'[c].pc # "gateway" )
          => LET p == call[c].payment.id
                 old == transactions[p]
                 new == transactions'[p]
                 id == IF call'[c].pc = "outer" THEN call'[c].txn ELSE outcome'.txn
             IN  \A i \in SuccessfulOfKind(old, CAPTURE) :
                     (new[id].is_success /\ new[id].token = old[i].token)
                     => ( /\ new = old
                          /\ id = i
                          /\ \A j \in SuccessfulOfKind(new, CAPTURE) :
                                 new[j].token = old[i].token => j = i )
      ]_vars

\* A capture has returned a row the ledger already held.
C2_Witness ==
    \E c \in Callers :
        /\ call[c].pc = "outer"
        /\ call[c].op = "capture"
        /\ call[c].inserted = 0
        /\ transactions[call[c].payment.id][call[c].txn].kind = CAPTURE
        /\ transactions[call[c].payment.id][call[c].txn].is_success

\* C3: no two callers are at the same time between locking a payment and
\* committing on it.
C3_MutualExclusion ==
    \A c, d \in Callers :
        (c # d /\ InLockedSection(c) /\ InLockedSection(d))
        => call[c].payment.id # call[d].payment.id

\* One caller is in its gateway call while the other waits for the same row.
C3_Witness ==
    \E c, d \in Callers :
        /\ call[c].pc = "gateway"
        /\ call[d].pc = "lock"
        /\ call[c].payment.id = call[d].payment.id

\* C4: while a refund is between reading captured_amount under the lock and
\* its commit, no other refund of the payment has been committed and
\* post-processed: the captured_amount it validates against is never one that
\* another refund has meanwhile reduced.
C4_RefundReadsAfterOtherRefunds ==
    \A c \in Callers :
        (InLockedSection(c) /\ call[c].op = "refund")
        => call[c].epoch = refund_epoch[call[c].payment.id]

\* A refund validates its amount after another refund was committed.
C4_Witness ==
    \E c \in Callers :
        /\ call[c].pc = "body"
        /\ call[c].op = "refund"
        /\ call[c].epoch = 1
        /\ outcome.op = "refund"
        /\ outcome.result = "returned"

\* C5: a gateway call is dispatched only by a call whose payment, as reloaded
\* under the lock, is active.
C5_ActivityCheckedUnderLock ==
    \A c \in Callers : call[c].pc = "gateway" => call[c].obj.is_active

\* C6: an orchestrator called with a payment object that is not active fails
\* with the inactive-payment error; it takes no lock, calls no gateway and
\* writes no row.
C6_InactivePaymentFailsEarly ==
    (Ended /\ ~outcome.payment.is_active)
    => ( /\ outcome.result = "raised"
         /\ outcome.error = INACTIVE_ERROR
         /\ outcome.locks = 0
         /\ outcome.gateway_calls = 0
         /\ outcome.inserted = 0
         /\ outcome.hooks = 0 )

\* A call made with an inactive payment has ended.
C6_Witness == Ended /\ ~outcome.payment.is_active

\* C7: a call returns a successful Transaction or raises an error with a
\* message: that of its unsuccessful Transaction, or the generic one when the
\* Transaction has none.
C7_SuccessOrError ==
    /\ outcome.result = "returned" => (outcome.txn # 0 /\ OutcomeRow.is_success)
    /\ outcome.result = "raised" =>
          /\ outcome.error # NoError
          /\ outcome.txn # 0 =>
                /\ ~OutcomeRow.is_success
                /\ outcome.error = IF OutcomeRow.error # NoError
                                   THEN OutcomeRow.error
                                   ELSE GENERIC_TRANSACTION_ERROR

\* A call failed on a Transaction without an error of its own.
C7_Witness ==
    /\ outcome.result = "raised"
    /\ outcome.txn # 0
    /\ OutcomeRow.error = NoError
    /\ outcome.error = GENERIC_TRANSACTION_ERROR

\* C8: a call that returns a Transaction has run the post-processing hook on
\* it exactly once.
C8_HookRunsOnce == outcome.result = "returned" => outcome.hooks = 1

\* C9: only a caller inside the locked section of a call on a payment holds
\* the lock of that payment; a caller whose call has returned or failed holds
\* none.
C9_LockReleasedOnExit ==
    \A p \in DOMAIN lock : \A c \in Callers :
        lock[p] = c => (InLockedSection(c) /\ call[c].payment.id = p)

\* A call has failed on a precondition checked under the lock, and the lock
\* is free again.
C9_Witness ==
    /\ outcome.result = "raised"
    /\ outcome.locks = 1
    /\ outcome.gateway_calls = 0
    /\ \A p \in DOMAIN lock : lock[p] = NoOne

\* C10: a capture that passes the activity and amount checks on a payment
\* without a successful AUTH row fails with the missing-prior-transaction
\* error before any gateway call; the token of a dispatched capture is that of
\* the newest successful AUTH row.
C10_CaptureNeedsAuth ==
    /\ ( /\ Ended
         /\ outcome.op = "capture"
         /\ SuccessfulOfKind(OutcomeLedger, AUTH) = {}
         /\ outcome.error \notin
               {INACTIVE_ERROR, NOT_POSITIVE_ERROR, CAPTURE_TOO_MUCH_ERROR} )
       => ( /\ outcome.result = "raised"
            /\ outcome.error = CannotFindError(AUTH)
            /\ outcome.gateway_calls = 0
            /\ outcome.inserted = 0 )
    /\ \A c \in Callers :
          (call[c].pc = "gateway" /\ call[c].op = "capture")
          => LET txns == transactions[call[c].payment.id]
                 auth == SuccessfulOfKind(txns, AUTH)
             IN  /\ auth # {}
                 /\ \A i \in auth : (\A j \in auth : j <= i)
                                    => call[c].payload.token = txns[i].token

\* A capture on a payment that was never authorized has failed.
C10_Witness ==
    /\ outcome.op = "capture"
    /\ outcome.error = CannotFindError(AUTH)
    /\ outcome.locks = 1

\* The amount errors of _validate_refund_amount.
InvalidAmountErrors == {NOT_POSITIVE_ERROR, REFUND_TOO_MUCH_ERROR}

\* C11: a refund that reaches its body with an amount <= 0 or above the
\* captured_amount read under the lock fails with the amount error and no
\* gateway call; with amount = captured_amount > 0 it passes the amount
\* validation, the only failures left before the gateway are those of a
\* payment that cannot be refunded or has no successful prior Transaction,
\* and when the gateway succeeds the call returns a successful REFUND
\* Transaction.
C11_RefundAmountBounds ==
    (Ended /\ outcome.op = "refund" /\ outcome.locks = 1)
    => /\ (outcome.amount <= 0 \/ outcome.amount > outcome.captured)
          => /\ outcome.result = "raised"
             /\ outcome.error \in InvalidAmountErrors
             /\ outcome.gateway_calls = 0
             /\ outcome.inserted = 0
       /\ (outcome.amount = outcome.captured /\ outcome.captured > 0)
          => /\ outcome.error \notin InvalidAmountErrors
             /\ (outcome.result = "raised" /\ outcome.gateway_calls = 0)
                => outcome.error \in
                      {CANNOT_REFUND_ERROR, CannotFindError(CAPTURE),
                       CannotFindError(EXTERNAL)}
             /\ (outcome.error = CANNOT_REFUND_ERROR)
                => ~can_refund(payments[outcome.payment.id])
             /\ outcome.plugin = "succeeded"
                => /\ outcome.result = "returned"
                   /\ OutcomeRow.kind = REFUND
                   /\ OutcomeRow.is_success

\* A refund of the whole captured amount went to the gateway and returned its
\* REFUND Transaction.
C11_Witness ==
    /\ outcome.op = "refund"
    /\ outcome.result = "returned"
    /\ outcome.plugin = "succeeded"
    /\ outcome.amount = outcome.captured
    /\ outcome.captured > 0

\* A refund of more than was captured has failed.
C11_WitnessTooMuch ==
    /\ outcome.op = "refund"
    /\ outcome.error = REFUND_TOO_MUCH_ERROR
    /\ outcome.amount > outcome.captured

\* C12: the refund of a manual payment that passes its preconditions (an
\* amount within 1..captured_amount, a refundable payment, a successful
\* EXTERNAL row) returns a successful REFUND Transaction it has inserted, and
\* no refund of a manual payment is ever in a gateway call.
C12_ManualRefundSkipsGateway ==
    /\ \A c \in Callers :
          (call[c].op = "refund" /\ InLockedSection(c) /\ is_manual(call[c].obj))
          => (call[c].pc # "gateway" /\ call[c].gateway_calls = 0)
    /\ ( /\ Ended
         /\ outcome.op = "refund"
         /\ outcome.locks = 1
         /\ is_manual(payments[outcome.payment.id]) )
       => /\ outcome.gateway_calls = 0
          /\ outcome.plugin = "none"
          /\ ( /\ outcome.amount \in 1..outcome.captured
               /\ can_refund(payments[outcome.payment.id])
               /\ SuccessfulOfKind(OutcomeLedger, EXTERNAL) # {} )
             => /\ outcome.result = "returned"
                /\ outcome.inserted = 1
                /\ OutcomeRow.kind = REFUND
                /\ OutcomeRow.is_success
                /\ OutcomeRow.amount = outcome.amount

\* The refund of a manual payment has returned its REFUND Transaction.
C12_Witness ==
    /\ outcome.op = "refund"
    /\ outcome.result = "returned"
    /\ is_manual(payments[outcome.payment.id])
    /\ OutcomeRow.kind = REFUND
    /\ outcome.gateway_calls = 0

\* C13: for everything the plugin can do, _fetch_gateway_response gives the
\* response with no error when the plugin returned a valid response, and no
\* response with ERROR_MSG when it raised or returned a malformed one; a call
\* whose plugin failed fails to its caller with ERROR_MSG, on a Transaction
\* that holds ERROR_MSG and nothing of the raw response, and a call whose
\* plugin returned a valid response never shows ERROR_MSG.
C13_FetchShapes ==
    /\ \A op \in Ops : \A plugin \in GatewayOutcomes(op) :
          LET fetched == _fetch_gateway_response(plugin)
          IN  IF plugin.how = "valid"
              THEN /\ fetched.error = NoError
                   /\ ~fetched.response.is_none
                   /\ fetched.response.is_success = plugin.is_success
                   /\ fetched.response.transaction_id = plugin.transaction_id
                   /\ fetched.response.action_required = plugin.action_required
                   /\ fetched.response.error = plugin.error
              ELSE /\ fetched.response = NoResponse
                   /\ fetched.error = ERROR_MSG
    /\ (Ended /\ outcome.plugin = "failed")
       => /\ outcome.result = "raised"
          /\ outcome.error = ERROR_MSG
          /\ outcome.txn # 0
          /\ ~OutcomeRow.is_success
          /\ OutcomeRow.error = ERROR_MSG
    /\ (Ended /\ outcome.plugin \in {"succeeded", "declined"})
       => outcome.error # ERROR_MSG

\* A call whose plugin raised or returned a malformed response has failed to
\* its caller.
C13_Witness ==
    /\ outcome.plugin = "failed"
    /\ outcome.result = "raised"
    /\ outcome.error = ERROR_MSG
    /\ outcome.gateway_calls = 1

\* C14: a void on a payment that does not support void fails with no gateway
\* call and no row written, and a void is in its gateway call only on a
\* payment that is active, supports void and has a successful AUTH row.
C14_VoidNeedsVoidable ==
    /\ \A c \in Callers :
          (call[c].pc = "gateway" /\ call[c].op = "void")
          => /\ call[c].obj.is_active
             /\ can_void(call[c].obj)
             /\ SuccessfulOfKind(transactions[call[c].payment.id], AUTH) # {}
    /\ (Ended /\ outcome.op = "void" /\ ~can_void(outcome.payment))
       => /\ outcome.result = "raised"
          /\ outcome.gateway_calls = 0
          /\ outcome.inserted = 0

\* C15: payment_refund_or_void on an absent payment does nothing; on a
\* payment it calls refund when the payment can be refunded, else void when it
\* can be voided, else nothing, in which case it returns without raising; one
\* call enters at most one orchestrator, once.
C15_RefundOrVoid ==
    (Ended /\ outcome.via = "payment_refund_or_void")
    => LET payment == outcome.payment
           nothing == /\ outcome.op = "none"
                      /\ outcome.result = "nothing"
                      /\ outcome.locks = 0
                      /\ outcome.gateway_calls = 0
                      /\ outcome.inserted = 0
                      /\ outcome.hooks = 0
       IN  /\ payment = NoPayment => nothing
           /\ (payment # NoPayment /\ can_refund(payment))
              => (outcome.op = "refund" /\ outcome.result # "nothing")
           /\ (payment # NoPayment /\ ~can_refund(payment) /\ can_void(payment))
              => (outcome.op = "void" /\ outcome.result # "nothing")
           /\ (payment # NoPayment /\ ~can_refund(payment) /\ ~can_void(payment))
              => nothing
           /\ outcome.locks <= 1
           /\ outcome.gateway_calls <= 1
           /\ outcome.inserted <= 1
           /\ outcome.op = "refund"
              => (outcome.txn # 0 => OutcomeRow.kind = REFUND)
           /\ outcome.op = "void"
              => (outcome.txn # 0 => OutcomeRow.kind = VOID)

\* payment_refund_or_void has voided a payment that cannot be refunded.
C15_Witness ==
    /\ outcome.via = "payment_refund_or_void"
    /\ outcome.op = "void"
    /\ outcome.result = "returned"
    /\ ~can_refund(outcome.payment)

\* payment_refund_or_void has returned from a payment it can neither refund
\* nor void.
C15_WitnessNothing ==
    /\ outcome.via = "payment_refund_or_void"
    /\ outcome.payment # NoPayment
    /\ outcome.result = "nothing"

\* C16: the captured_amount of a payment never exceeds its total, whatever
\* calls were made and however they interleaved (stated on the payments of a
\* gateway, the ones process_payment and capture charge).
C16_CapturedWithinTotal ==
    \A p \in DOMAIN payments :
        ~is_manual(payments[p]) => payments[p].captured_amount <= MaxTotal

\* C17: a call that waits for the lock of its payment while another caller is
\* in the locked section of a different payment can take its lock at once:
\* the lock held on one payment never keeps a caller off another.
C17_OtherPaymentNotBlocked ==
    \A c, d \in Callers :
        ( /\ c # d
          /\ call[c].pc = "lock"
          /\ InLockedSection(d)
          /\ call[d].payment.id # call[c].payment.id )
        => ENABLED with_locked_payment(c)

\* Two callers are in the locked sections of two payments at the same time.
C17_Witness ==
    \E c, d \in Callers :
        /\ call[c].pc = "gateway"
        /\ call[d].pc = "gateway"
        /\ call[c].payment.id # call[d].payment.id
        /\ lock[call[c].payment.id] = c
        /\ lock[call[d].payment.id] = d

\* C18: a call makes at most one gateway call; when the plugin failed (it
\* raised or its response failed validation) or declined, the call has raised
\* to its caller and the ledger holds the one unsuccessful Transaction it
\* inserted, of the kind the orchestrator writes, with ERROR_MSG as its error
\* when the plugin failed.
C18_NoRetryFailedRowKept ==
    /\ \A c \in Callers : call[c].gateway_calls <= 1
    /\ outcome.gateway_calls <= 1
    /\ (Ended /\ outcome.plugin \in {"failed", "declined"})
       => /\ outcome.result = "raised"
          /\ outcome.gateway_calls = 1
          /\ outcome.inserted = 1
          /\ outcome.txn \in 1..Len(OutcomeLedger)
          /\ ~OutcomeRow.is_success
          /\ OutcomeRow.kind = KindWritten(outcome.op)
          /\ outcome.plugin = "failed" => OutcomeRow.error = ERROR_MSG

\* A call whose plugin failed has raised, the lock is free again and its
\* unsuccessful Transaction is the newest row of the ledger.
C18_Witness ==
    /\ outcome.plugin = "failed"
    /\ outcome.result = "raised"
    /\ outcome.txn = Len(OutcomeLedger)
    /\ ~OutcomeRow.is_success
    /\ lock[outcome.payment.id] = NoOne

\* The errors of the preconditions: the activity check, the amount checks,
\* can_refund, clean_authorize and the prior-Transaction lookup.
PreconditionErrors ==
    {INACTIVE_ERROR, NOT_POSITIVE_ERROR, REFUND_TOO_MUCH_ERROR,
     CAPTURE_TOO_MUCH_ERROR, CANNOT_REFUND_ERROR, ALREADY_AUTHORIZED_ERROR,
     CannotFindError(AUTH), CannotFindError(CAPTURE), CannotFindError(EXTERNAL)}

\* The prior Transaction kind an orchestrator needs on payment pay, "" when
\* it needs none.
PriorKind(op, pay) ==
    CASE op \in {"capture", "void"} -> AUTH
      [] op = "refund" -> IF is_manual(pay) THEN EXTERNAL ELSE CAPTURE
      [] OTHER -> ""

\* C19: the step in which a call fails on a precondition changes no payment
\* and no ledger, and the call has made no gateway call, run no hook and
\* inserted no row; and a call does fail so whenever its payment object is
\* inactive, its payment cannot be refunded (refund) or the ledger has no
\* successful Transaction of the kind it needs: it leaves its body for the
\* gateway only with these preconditions met and, for a refund, an amount
\* within 1..captured_amount.
C19_PreconditionFailureFrame ==
    [][ \A c \in Callers :
          LET p == call[c].payment.id
              ends == call[c].pc # "idle" /\ call'[c].pc = "idle"
          IN  /\ (ends /\ outcome'.error \in PreconditionErrors)
                 => /\ outcome'.result = "raised"
                    /\ payments' = payments
                    /\ transactions' = transactions
                    /\ refund_epoch' = refund_epoch
                    /\ outcome'.gateway_calls = 0
                    /\ outcome'.plugin = "none"
                    /\ outcome'.hooks = 0
                    /\ outcome'.inserted = 0
                    /\ outcome'.txn = 0
              /\ ( /\ call[c].pc = "loaded"
                   /\ call'[c] # call[c]
                   /\ ~call[c].payment.is_active )
                 => (ends /\ outcome'.error = INACTIVE_ERROR)
              /\ ( /\ call[c].pc = "body"
                   /\ call'[c] # call[c]
                   /\ \/ PriorKind(call[c].op, call[c].obj) # ""
                         /\ SuccessfulOfKind(transactions[p],
                                PriorKind(call[c].op, call[c].obj)) = {}
                      \/ call[c].op = "refund" /\ ~can_refund(call[c].obj) )
                 => (ends /\ outcome'.error \in PreconditionErrors)
              /\ ( /\ call[c].pc = "body"
                   /\ call[c].op = "refund"
                   /\ call'[c].pc = "gateway" )
                 => call'[c].amount \in 1..call[c].obj.captured_amount
      ]_vars

\* A refund has failed on a payment that cannot be refunded, after a call
\* that wrote to the ledger.
C19_Witness ==
    /\ outcome.op = "refund"
    /\ outcome.error = CANNOT_REFUND_ERROR
    /\ outcome.locks = 1
    /\ Len(OutcomeLedger) >= 2

\* The call of caller c can go on: the step it is at is enabled, or it waits
\* for a lock whose holder is in its locked section and can go on itself.
CanGoOn(c) ==
    \/ call[c].pc \in {"idle", "loaded"}
    \/ call[c].pc = "lock" /\ ENABLED with_locked_payment(c)
    \/ call[c].pc = "lock"
          /\ \E d \in Callers \ {c} :
                /\ lock[call[c].payment.id] = d
                /\ call[d].pc = "gateway" \/ call[d].pc = "body"
    \/ call[c].pc = "body"
    \/ call[c].pc = "gateway" /\ ENABLED gateway_returns(c)
    \/ call[c].pc = "outer" /\ ENABLED payment_postprocess(c)

NoCallStuck == \A c \in Callers : CanGoOn(c)

====
